---- MODULE Spec2Model ----
(***************************************************************************)
(* A model of craft.py, the Pax Dei crafting calculator: the failure       *)
(* multiplier, the recursive raw-material aggregation, the breakdown       *)
(* builder, the storage figures of generate_breakdown, and the two         *)
(* lru_cache'd lookups behind them.                                        *)
(*                                                                         *)
(* Quantities are Python floats (IEEE-754 binary64).  TLC's integers are   *)
(* 32 bits wide, so a double is a record [s, m, e] of value                *)
(* (-1)^s * m * 2^e whose 53-bit significand m is a little-endian          *)
(* sequence of 14-bit limbs; every operation rounds to nearest, ties to    *)
(* even, as the hardware does, and a result of 2^1024 or more is inf.      *)
(* Subnormals and NaN are out of range for the quantities modelled here.   *)
(***************************************************************************)
EXTENDS Integers, Sequences, FiniteSets, TLC

\* ------------------------------------------------------------------ naturals
\* the limb width: a product of two limbs stays below 2^31
LimbBits == 2 * 7
Base == 2 ^ LimbBits
\* the width of a double's significand
Mantissa == 53

None == "None"
\* scrape_recipe's None, told from a recipe record by its fields
NoRecipe == [none |-> TRUE]

Min(a, b) == IF a <= b THEN a ELSE b
Max(a, b) == IF a >= b THEN a ELSE b

\* Python evaluates an argument before the call it is passed to: Op(x) with
\* x computed first (x is the one point of the function's domain)
ByValue(Op(_), x) == [v \in {x} |-> Op(v)][x]

\* limb i of a, 0 beyond its ends
Limb(a, i) == IF i >= 1 /\ i <= Len(a) THEN a[i] ELSE 0

\* a without its leading zero limbs
BNorm(a) ==
    IF \A i \in 1..Len(a) : a[i] = 0 THEN <<>>
    ELSE SubSeq(a, 1, CHOOSE i \in 1..Len(a) :
                        a[i] # 0 /\ \A j \in (i + 1)..Len(a) : a[j] = 0)

\* the limbs of an int n >= 0 (below 2^31: three limbs at most)
BFromInt(n) == BNorm(<<n % Base, (n \div Base) % Base, n \div (Base * Base)>>)

\* the int of a, for a below 2^31
BToInt(a) == Limb(a, 1) + Base * Limb(a, 2) + Base * Base * Limb(a, 3)

\* whether a carry enters limb i of a + b: a limb below overflows, and every
\* limb between it and i is full
Carry(a, b, i) ==
    \E j \in 1..(i - 1) :
        /\ Limb(a, j) + Limb(b, j) >= Base
        /\ \A k \in (j + 1)..(i - 1) : Limb(a, k) + Limb(b, k) = Base - 1
AddLimb(a, b, i) ==
    (Limb(a, i) + Limb(b, i) + (IF Carry(a, b, i) THEN 1 ELSE 0)) % Base

BAdd(a, b) ==
    BNorm([i \in 1..(Max(Len(a), Len(b)) + 1) |-> AddLimb(a, b, i)] \o <<>>)

\* whether limb i of a - b lends to the limbs below: a limb below is short,
\* and every limb between it and i is level
Borrow(a, b, i) ==
    \E j \in 1..(i - 1) :
        /\ Limb(a, j) < Limb(b, j)
        /\ \A k \in (j + 1)..(i - 1) : Limb(a, k) = Limb(b, k)
SubLimb(a, b, i) ==
    (Base + a[i] - Limb(b, i) - (IF Borrow(a, b, i) THEN 1 ELSE 0)) % Base

\* a - b for a >= b
BSub(a, b) == BNorm([i \in 1..Len(a) |-> SubLimb(a, b, i)] \o <<>>)

\* -1, 0, 1 as a < b, a = b, a > b (both normalised)
TopDiff(a, b) ==
    CHOOSE i \in 1..Len(a) : a[i] # b[i] /\ \A j \in (i + 1)..Len(a) : a[j] = b[j]
BCmpAt(a, b, i) == IF a[i] < b[i] THEN -1 ELSE 1
BCmp(a, b) ==
    IF Len(a) < Len(b) THEN -1
    ELSE IF Len(a) > Len(b) THEN 1
    ELSE IF a = b THEN 0
    ELSE BCmpAt(a, b, TopDiff(a, b))

\* a * k for a limb k: the low halves of the limb products plus their high
\* halves one limb up
BMulLimb(a, k) ==
    BAdd([i \in 1..Len(a) |-> (a[i] * k) % Base] \o <<>>,
         <<0>> \o [i \in 1..Len(a) |-> (a[i] * k) \div Base])

Zeros(n) == [i \in 1..n |-> 0]

\* a times the limbs lo..hi of b, each at its place
RECURSIVE MulRange(_, _, _, _)
MulRange(a, b, lo, hi) ==
    IF lo = hi THEN Zeros(lo - 1) \o BMulLimb(a, b[lo])
    ELSE BAdd(MulRange(a, b, lo, (lo + hi) \div 2),
              MulRange(a, b, (lo + hi) \div 2 + 1, hi))

BMul(a, b) ==
    IF a = <<>> \/ b = <<>> THEN <<>> ELSE MulRange(a, b, 1, Len(b))

\* a * 2^k
\* a * 2^r for r < LimbBits: limb i takes the low bits of a[i] and the bits
\* shifted out of a[i - 1]
ShlBits(a, r) ==
    [i \in 1..(Len(a) + 1) |->
        ((Limb(a, i) * (2 ^ r)) % Base) + ((Limb(a, i - 1) * (2 ^ r)) \div Base)] \o <<>>
BShl(a, k) ==
    IF a = <<>> THEN <<>>
    ELSE BNorm(Zeros(k \div LimbBits) \o ShlBits(a, k % LimbBits))

\* the limbs of a from limb i up, modulo d, for 0 < d < 2^17
RECURSIVE RemFrom(_, _, _)
RemFrom(a, d, i) ==
    IF i > Len(a) THEN 0 ELSE (RemFrom(a, d, i + 1) * Base + a[i]) % d

\* <<a \div d, a % d>> for 0 < d < 2^17: limb i of the quotient divides the
\* remainder of the limbs above it, followed by limb i of a
BDivSmall(a, d) ==
    <<BNorm([i \in 1..Len(a) |-> (RemFrom(a, d, i + 1) * Base + a[i]) \div d] \o <<>>),
      RemFrom(a, d, 1)>>

\* floor(a / 2^k)
\* floor(a / 2^r) for r < LimbBits: limb i takes the high bits of a[i] and
\* the bits shifted out of a[i + 1]
ShrBits(a, r) ==
    [i \in 1..Len(a) |->
        (a[i] \div (2 ^ r)) + ((Limb(a, i + 1) % (2 ^ r)) * (2 ^ (LimbBits - r)))] \o <<>>
BShr(a, k) ==
    IF k \div LimbBits >= Len(a) THEN <<>>
    ELSE BNorm(ShrBits(SubSeq(a, k \div LimbBits + 1, Len(a)), k % LimbBits))

\* a % 2^k # 0
BLowBits(a, k) ==
    LET limbs == k \div LimbBits
    IN  \/ \E i \in 1..Min(limbs, Len(a)) : a[i] # 0
        \/ limbs < Len(a) /\ a[limbs + 1] % (2 ^ (k % LimbBits)) # 0

\* bit k (from 0) of a
BBit(a, k) ==
    LET i == k \div LimbBits + 1
    IN  IF i > Len(a) THEN 0 ELSE (a[i] \div (2 ^ (k % LimbBits))) % 2

\* the number of bits of a limb n
IntBits(n) == CHOOSE k \in 0..LimbBits : 2 ^ k > n /\ (k = 0 \/ 2 ^ (k - 1) <= n)

BitLen(a) ==
    IF a = <<>> THEN 0 ELSE LimbBits * (Len(a) - 1) + IntBits(a[Len(a)])

\* d * q <= r, for q >= 1
Fits(d, q, r) == BCmp(BMulLimb(d, q), r) <= 0
\* the largest q with d * q <= r, which is est or at most two below it
Largest(d, r, est) ==
    IF est <= 0 THEN 0
    ELSE IF Fits(d, est, r) THEN est
    ELSE IF est = 1 \/ Fits(d, est - 1, r) THEN est - 1
    ELSE est - 2
\* the largest q with d * q <= r, for r < d * Base and the top limb of d at
\* least Base / 2: the quotient of the top limbs of r by the top limb of d
\* is q or at most two above it
QuotLimb(r, d) ==
    Largest(d, r, Min(Base - 1,
                      (Limb(r, Len(d) + 1) * Base + Limb(r, Len(d))) \div d[Len(d)]))

\* <<a \div d, a % d>> for d whose top limb is at least Base / 2: long
\* division, a limb of a at a time from the top down to limb i; the limbs of
\* a above the length of d are the first remainder
RECURSIVE BDivModFrom(_, _, _)
\* the step for a limb once its quotient limb q is known, r2 the running
\* dividend and qs the quotient limbs above
DivLimb(d, qs, r2, q) == <<<<q>> \o qs, BSub(r2, BMulLimb(d, q))>>
DivStep(d, qs, r2) == DivLimb(d, qs, r2, QuotLimb(r2, d))
PushLimb(d, limb, up) == ByValue(LAMBDA r2 : DivStep(d, up[1], r2), BNorm(<<limb>> \o up[2]))
BDivModFrom(a, d, i) ==
    IF i + Len(d) > Len(a) + 1
    THEN <<<<>>, BNorm(SubSeq(a, Max(i, 1), Len(a)))>>
    ELSE ByValue(LAMBDA up : PushLimb(d, a[i], up), BDivModFrom(a, d, i + 1))

\* a quotient and remainder pair with the quotient normalised
NormQuot(qr) == <<BNorm(qr[1]), qr[2]>>

\* <<a \div d, (a % d) * 2^k>> for any d # 0, k the shift that brings the top
\* bit of d to the top of its limb
BDivLimbs(a, d) == NormQuot(BDivModFrom(a, d, 1))
BDivScaled(a, d, k) == BDivLimbs(BShl(a, k), BShl(d, k))
BDivMod(a, d) == BDivScaled(a, d, (LimbBits - (BitLen(d) % LimbBits)) % LimbBits)

\* ------------------------------------------------------------------ doubles
FZero == [s |-> 0, m |-> <<>>, e |-> 0]

\* doubles end below 2^MaxExponent; inf and -inf have no significand
MaxExponent == 1024
FInf(s) == [s |-> s, m |-> <<>>, e |-> MaxExponent]
IsInf(a) == a.m = <<>> /\ a.e = MaxExponent

\* The double nearest to (-1)^s * (m + f) * 2^e, where 0 <= f < 1 and
\* f > 0 exactly when sticky: round to nearest, ties to even.
\* q2 is the rounded significand: one bit too long when the carry ran through
FCarried(s, q2, e) ==
    IF BitLen(q2) > Mantissa THEN [s |-> s, m |-> BShr(q2, 1), e |-> e + 1]
    ELSE [s |-> s, m |-> q2, e |-> e]
\* q is the significand cut to 53 bits, half the first bit cut off, rest
\* whether anything lies below it
FTies(s, q, e, half, rest) ==
    FCarried(s, IF half /\ (rest \/ BBit(q, 0) = 1) THEN BAdd(q, <<1>>) ELSE q, e)
\* m has k bits too many
FCut(s, m, e, sticky, k) ==
    FTies(s, BShr(m, k), e + k, BBit(m, k - 1) = 1, sticky \/ BLowBits(m, k - 1))
\* m has n bits
FFit(s, m, e, sticky, n) ==
    IF n = 0 THEN FZero
    ELSE IF n <= Mantissa
    THEN [s |-> s, m |-> BShl(m, Mantissa - n), e |-> e - (Mantissa - n)]
    ELSE FCut(s, m, e, sticky, n - Mantissa)
\* r, or inf where r is beyond the largest double
Bounded(r) == IF r.e + Mantissa > MaxExponent THEN FInf(r.s) ELSE r
FRound(s, m, e, sticky) == Bounded(FFit(s, m, e, sticky, BitLen(m)))

\* float(n) for an int n
FromInt(n) ==
    FRound(IF n < 0 THEN 1 ELSE 0, BFromInt(IF n < 0 THEN -n ELSE n), 0, FALSE)

FNeg(a) == IF a = FZero THEN a ELSE [a EXCEPT !.s = 1 - a.s]

\* a + b
\* x * 2^e and y * 2^e of opposite signs sa and sb, c comparing x with y
FAddOpposite(sa, sb, x, y, e, c) ==
    FRound(IF c > 0 THEN sa ELSE sb,
           IF c = 0 THEN <<>> ELSE IF c > 0 THEN BSub(x, y) ELSE BSub(y, x), e, FALSE)
FAddAligned(sa, sb, x, y, e) ==
    IF sa = sb THEN FRound(sa, BAdd(x, y), e, FALSE)
    ELSE FAddOpposite(sa, sb, x, y, e, BCmp(x, y))
FAddAt(a, b, e) == FAddAligned(a.s, b.s, BShl(a.m, a.e - e), BShl(b.m, b.e - e), e)
FAdd(a, b) ==
    IF IsInf(a) THEN a
    ELSE IF IsInf(b) \/ a.m = <<>> THEN b
    ELSE IF b.m = <<>> THEN a
    ELSE FAddAt(a, b, Min(a.e, b.e))

\* a - b
FSub(a, b) == FAdd(a, FNeg(b))

\* a * b
FMul(a, b) ==
    IF IsInf(a) \/ IsInf(b) THEN FInf((a.s + b.s) % 2)
    ELSE IF a.m = <<>> \/ b.m = <<>> THEN FZero
    ELSE FRound((a.s + b.s) % 2, BMul(a.m, b.m), a.e + b.e, FALSE)

\* the number of trailing zero bits of a # 0: those of its lowest limb that
\* is not zero and the limbs below it
LowLimb(a) == CHOOSE i \in 1..Len(a) : a[i] # 0 /\ \A j \in 1..(i - 1) : a[j] = 0
LimbZeros(n) == CHOOSE k \in 0..(LimbBits - 1) : n % (2 ^ (k + 1)) = 2 ^ k
ZerosBelow(a, i) == LimbBits * (i - 1) + LimbZeros(a[i])
TrailingZeros(a) == ZerosBelow(a, LowLimb(a))

\* a / b for b # 0, not both inf: the quotient of the significands to 57 bits or more and
\* whether a remainder is left, then one rounding
SmallRem(qr) == <<qr[1], qr[2] # 0>>
LongRem(qr) == <<qr[1], qr[2] # <<>>>>
\* <<num \div d, whether a remainder is left>>
QuotRem(num, d) ==
    IF BitLen(d) <= LimbBits + 3 THEN SmallRem(BDivSmall(num, BToInt(d)))
    ELSE LongRem(BDivMod(num, d))
FDivRound(s, qr, e) == FRound(s, qr[1], e, qr[2])
\* b's significand has t trailing zero bits
FDivOdd(a, b, t) ==
    FDivRound((a.s + b.s) % 2, QuotRem(BShl(a.m, Mantissa + 3), BShr(b.m, t)),
              a.e - b.e - t - (Mantissa + 3))
FDiv(a, b) ==
    IF IsInf(a) THEN FInf((a.s + b.s) % 2)
    ELSE IF a.m = <<>> \/ IsInf(b) THEN FZero
    ELSE FDivOdd(a, b, TrailingZeros(b.m))

\* the integer part of |a|, in limbs, and whether a fraction is left, for
\* finite a
FPartsLimbs(a) ==
    IF a.m = <<>> THEN <<<<>>, FALSE>>
    ELSE IF a.e >= 0 THEN <<BShl(a.m, a.e), FALSE>>
    ELSE <<BShr(a.m, -a.e), BLowBits(a.m, -a.e)>>

\* the same with the integer part as an int, where it is below 2^31
FParts(a) == LET p == FPartsLimbs(a) IN <<BToInt(p[1]), p[2]>>

\* float(math.ceil(a)) for finite a: math.ceil gives an int of any size, and
\* the int of a double is a double again
CeilFloat(a) ==
    IF a.e >= 0 THEN a
    ELSE LET p == FPartsLimbs(a)
         IN  FRound(a.s, IF a.s = 0 /\ p[2] THEN BAdd(p[1], <<1>>) ELSE p[1], 0, FALSE)

\* math.ceil(a) for finite a, where it is below 2^31 (math.ceil(inf) raises
\* OverflowError)
CeilOf(s, p) ==
    IF s = 1 THEN -p[1]
    ELSE IF p[2] THEN p[1] + 1 ELSE p[1]
FCeil(a) == CeilOf(a.s, FParts(a))

\* int(a): towards zero, for finite a below 2^31
TruncOf(s, p) == IF s = 1 THEN -p[1] ELSE p[1]
FTrunc(a) == TruncOf(a.s, FParts(a))

\* ------------------------------------------------------------------ the site
\* The world outside the program, one record w:
\*   w.search[item_name]  the result list of the DuckDuckGo query for the name
\*                        (max_results=1: empty, or one result with an href);
\*   w.page[url]          what scrape_recipe parses from the page at url: a
\*                        recipe record, or NoRecipe (request failed, or no
\*                        "Skill: ... Difficulty: n" on the page);
\*   w.stack[slug]        the numbers that follow "Max Stack" on the item's
\*                        page: <<n>>, or <<>> when the page has none.
\* A recipe is [name, skill, diff, ingredients, yield_per, url]; ingredients is
\* the dict built at lines 64-80 as the sequence of its items in insertion
\* order, each [name, qty_per, slug, link], the names distinct.

\* Python compares strings by code point: the characters of item names and
\* slugs, in that order (a character's place stands for its code).
CharOrder == " -0123456789ABCDEFGHIJKLMNOPQRSTUVWXYZ_abcdefghijklmnopqrstuvwxyz"

Code(c) == CHOOSE i \in 1..Len(CharOrder) : SubSeq(CharOrder, i, i) = c

\* a < b for str
RECURSIVE StrLess(_, _)
StrLess(a, b) ==
    IF b = "" THEN FALSE
    ELSE IF a = "" THEN TRUE
    ELSE IF Head(a) = Head(b) THEN StrLess(Tail(a), Tail(b))
    ELSE Code(Head(a)) < Code(Head(b))

\* the items in dict order, unsorted
AsListed(items) == items

\* sorted(items, key=lambda x: x[0]) for dict items, whose names are distinct:
\* the item at place k is the one with k - 1 names below its own.  (Appending
\* <<>> makes TLC evaluate the sequence once instead of at each use.)
SortedByName(items) ==
    LET n == Len(items)
        below == [i \in 1..n |->
                    Cardinality({j \in 1..n : StrLess(items[j].name, items[i].name)})]
                 \o <<>>
    IN  [k \in 1..n |-> items[CHOOSE i \in 1..n : below[i] = k - 1]] \o <<>>

\* sorted(slugs) for a set of str
SortedSlugs(slugs) ==
    LET below == [x \in slugs |-> Cardinality({y \in slugs : StrLess(y, x)})]
                 @@ <<>>
    IN  [k \in 1..Cardinality(slugs) |-> CHOOSE x \in slugs : below[x] = k - 1] \o <<>>

Lowercase == "abcdefghijklmnopqrstuvwxyz"
Uppercase == "ABCDEFGHIJKLMNOPQRSTUVWXYZ"

IsIn(c, chars) == \E i \in 1..Len(chars) : SubSeq(chars, i, i) = c
Swap(c, from, to) ==
    IF IsIn(c, from)
    THEN LET i == CHOOSE j \in 1..Len(from) : SubSeq(from, j, j) = c IN SubSeq(to, i, i)
    ELSE c

\* str.title(): a letter after a letter is lowercased, any other letter is
\* uppercased; cased says whether the previous character was a letter
RECURSIVE TitleFrom(_, _)
TitleFrom(str, cased) ==
    IF str = "" THEN ""
    ELSE LET c == Head(str)
             letter == IsIn(c, Lowercase) \/ IsIn(c, Uppercase)
             out == IF cased THEN Swap(c, Uppercase, Lowercase)
                    ELSE Swap(c, Lowercase, Uppercase)
         IN  out \o TitleFrom(Tail(str), letter)

Title(str) == TitleFrom(str, FALSE)

\* str.replace(old, new) for single characters
RECURSIVE Replace(_, _, _)
Replace(str, old, new) ==
    IF str = "" THEN ""
    ELSE (IF Head(str) = old THEN new ELSE Head(str)) \o Replace(Tail(str), old, new)

\* f"{n}" for an int
Str(n) == ToString(n)

\* "".join(parts[lo..hi]), by halves
RECURSIVE ConcatRange(_, _, _)
ConcatRange(parts, lo, hi) ==
    IF lo > hi THEN ""
    ELSE IF lo = hi THEN parts[lo]
    ELSE LET mid == (lo + hi) \div 2
         IN  ConcatRange(parts, lo, mid) \o ConcatRange(parts, mid + 1, hi)

\* "".join(parts) for a sequence of str
Concat(parts) == ConcatRange(parts, 1, Len(parts))

\* sep.join(parts)
Join(sep, parts) ==
    Concat([i \in 1..Len(parts) |-> IF i = 1 THEN parts[i] ELSE sep \o parts[i]])

\* `if not url`: None and the empty string are falsy
Falsy(url) == url = None \/ url = ""

\* ------------------------------------------------------------------ lookups
\* find_recipe_url without its cache: the first result's href, or None
find_recipe_url(w, item_name) ==
    LET results == w.search[item_name]
    IN  IF results # <<>> THEN results[1].href ELSE None

\* scrape_recipe without its cache
scrape_recipe(w, recipe_url) == w.page[recipe_url]

DefaultStack == 50

\* get_max_stack
get_max_stack(w, slug) ==
    IF slug \in DOMAIN w.stack /\ w.stack[slug] # <<>> THEN w.stack[slug][1]
    ELSE DefaultStack

\* ------------------------------------------------------------------ failure logic
\* the float literal 0.<hundredths>, e.g. 0.08: the double nearest to n/100
Hundredths(n) == FDiv(FromInt(n), FromInt(100))

FailMultiplier(percent) == FDiv(FromInt(1), FSub(FromInt(1), Hundredths(percent)))

VeryEasyFail == 8
EasyFail == 15
ModerateFail == 30
HardFail == 50
EasyDelta == 3
ModerateDelta == 6

\* the tiers with the moderate boundary exclusive
get_fail_multiplier_exclusive(diff, adjusted_level) ==
    LET delta == diff - adjusted_level
    IN  IF delta <= 0 THEN FailMultiplier(VeryEasyFail)
        ELSE IF delta <= EasyDelta THEN FailMultiplier(EasyFail)
        ELSE IF delta < ModerateDelta THEN FailMultiplier(ModerateFail)
        ELSE FailMultiplier(HardFail)

get_fail_multiplier(diff, adjusted_level) ==
    LET delta == diff - adjusted_level
    IN  IF delta <= 0 THEN FailMultiplier(VeryEasyFail)
        ELSE IF delta <= EasyDelta THEN FailMultiplier(EasyFail)
        ELSE IF delta <= ModerateDelta THEN FailMultiplier(ModerateFail)
        ELSE FailMultiplier(HardFail)

\* ------------------------------------------------------------------ raw calc
NoFailLevel == 999


\* dict.get(key, default)
Get(d, key, default) == IF key \in DOMAIN d THEN d[key] ELSE default

\* for r_slug, q in sub_raw.items(): raw[r_slug] = raw.get(r_slug, 0) + q
Accumulate(raw, sub_raw) ==
    [r_slug \in DOMAIN sub_raw |-> FAdd(Get(raw, r_slug, FromInt(0)), sub_raw[r_slug])]
    @@ raw

EmptyDict == [x \in {} |-> 0]

\* crafts rounded up once more after the multiplier is applied
CraftsRounded(recipe, needed_qty, level, apply_fail) ==
    LET adj_lvl == IF apply_fail THEN level + 1 ELSE NoFailLevel
        mult == IF apply_fail THEN get_fail_multiplier(recipe.diff, adj_lvl)
                ELSE FromInt(1)
    IN  FromInt(FCeil(FMul(FromInt(FCeil(FDiv(needed_qty, FromInt(recipe.yield_per)))), mult)))

\* line 144 raises OverflowError: math.ceil of inf
Overflows(recipe, needed_qty) == IsInf(FDiv(needed_qty, FromInt(recipe.yield_per)))

\* crafts, line 142-144, where line 144 does not raise
Crafts(recipe, needed_qty, level, apply_fail) ==
    LET adj_lvl == IF apply_fail THEN level + 1 ELSE NoFailLevel
        mult == IF apply_fail THEN get_fail_multiplier(recipe.diff, adj_lvl)
                ELSE FromInt(1)
    IN  FMul(CeilFloat(FDiv(needed_qty, FromInt(recipe.yield_per))), mult)

RECURSIVE compute_raw(_, _, _, _, _, _)
\* the loop of lines 147-151 from ingredient i on, raw the dict so far
RECURSIVE RawLoop(_, _, _, _, _, _, _)
RawLoop(w, items, i, crafts, level, apply_fail, raw) ==
    IF i > Len(items) THEN raw
    ELSE LET info == items[i]
             Sub(sub_needed) ==
                 compute_raw(w, info.name, info.slug, sub_needed, level, apply_fail)
             Rest(sum) == RawLoop(w, items, i + 1, crafts, level, apply_fail, sum)
             Add(sub_raw) == ByValue(Rest, Accumulate(raw, sub_raw))
         IN  ByValue(Add, ByValue(Sub, FMul(FromInt(info.qty_per), crafts)))

compute_raw(w, name, slug, needed_qty, level, apply_fail) ==
    LET url == find_recipe_url(w, name)
    IN  IF Falsy(url) THEN (slug :> needed_qty)
        ELSE LET recipe == scrape_recipe(w, url)
             IN  IF recipe = NoRecipe THEN (slug :> needed_qty)
                 ELSE LET Loop(crafts) ==
                              RawLoop(w, recipe.ingredients, 1, crafts, level, apply_fail,
                                      EmptyDict)
                      IN  ByValue(Loop, Crafts(recipe, needed_qty, level, apply_fail))

\* ------------------------------------------------------------------ breakdown
\* Text is a TLA+ string.  Three characters of the source's literals are
\* written with a stand-in of the same length: ' for the backtick, > for the
\* arrow U+2192 and - for the en dash U+2013.
BASE_URL == "https://paxdei.gaming.tools"

\* ceil(a / b) for ints a, b as the code computes it: a true division, then ceil
CeilDiv(a, b) == FCeil(FDiv(FromInt(a), FromInt(b)))

TableHead ==
    << "| Raw Resource | Qty | Max Stack | Slots | Method | Link |\n",
       "|--------------|-----|-----------|-------|--------|------|\n" >>

Notes == "\n**Subtotal/Bonus Notes**\n\n"

\* the Batch Craft line of a block, lines 167-170: the inputs in dict order
BatchLine(recipe) ==
    LET inputs == Join(", ", [i \in 1..Len(recipe.ingredients) |->
                        Str(recipe.ingredients[i].qty_per) \o "x " \o recipe.ingredients[i].name])
    IN  "- **Batch Craft**: '" \o inputs \o " > " \o Str(recipe.yield_per) \o "x "
        \o recipe.name \o "'\n"

\* line 179, url what find_recipe_url(sub_name) returned
Method(url) == IF Falsy(url) THEN "gather" ELSE "craft"

\* the table row of lines 180-183
RowText(info, sub_needed, max_st, slots, method) ==
    "| [" \o info.name \o "](" \o info.link \o ") | '" \o Str(sub_needed) \o "' | "
    \o Str(max_st) \o " | '" \o Str(slots) \o "' | " \o method \o " | ["
    \o info.name \o "](" \o info.link \o ") |\n"

\* the row of one ingredient, lines 176-183
Row(w, info, crafts, stacks_cache) ==
    LET sub_needed == info.qty_per * crafts
        max_st == Get(stacks_cache, info.slug, get_max_stack(w, info.slug))
        slots == CeilDiv(sub_needed, max_st)
    IN  RowText(info, sub_needed, max_st, slots, Method(find_recipe_url(w, info.name)))

\* the head of a block, lines 165-171
BlockHead(recipe, needed_qty, crafts) ==
    << "### 1. [" \o recipe.name \o "](" \o recipe.url \o ")\n",
       "- **Needed**: '" \o Str(needed_qty) \o "'\n",
       BatchLine(recipe),
       "- **Crafts Required**: 'ceil(" \o Str(needed_qty) \o " / "
           \o Str(recipe.yield_per) \o ") = " \o Str(crafts) \o "'\n\n" >>

\* build_breakdown as the sequence of the pieces it appends to bd
RECURSIVE BreakdownLines(_, _, _, _, _)
\* the loop of lines 175-185 from item i of the sorted items on:
\* <<the pieces appended to bd, the rows appended to table>>
RECURSIVE BlockLoop(_, _, _, _, _, _)
BlockLoop(w, items, i, crafts, level, stacks_cache) ==
    IF i > Len(items) THEN << <<>>, <<>> >>
    ELSE LET info == items[i]
             sub == BreakdownLines(w, info.name, info.qty_per * crafts, level, stacks_cache)
             rest == BlockLoop(w, items, i + 1, crafts, level, stacks_cache)
         IN  << sub \o <<Notes>> \o rest[1],
                <<Row(w, info, crafts, stacks_cache)>> \o rest[2] >>

BreakdownLines(w, name, needed_qty, level, stacks_cache) ==
    LET url == find_recipe_url(w, name)
    IN  IF Falsy(url) THEN <<>>
        ELSE LET recipe == scrape_recipe(w, url)
             IN  IF recipe = NoRecipe THEN <<>>
                 ELSE LET crafts == CeilDiv(needed_qty, recipe.yield_per)
                          loop == BlockLoop(w, SortedByName(recipe.ingredients), 1,
                                            crafts, level, stacks_cache)
                      IN  BlockHead(recipe, needed_qty, crafts) \o loop[1] \o TableHead \o loop[2] \o <<Notes>>

build_breakdown(w, name, needed_qty, level, stacks_cache) ==
    Concat(BreakdownLines(w, name, needed_qty, level, stacks_cache))

\* ------------------------------------------------------------------ main generator
ChestSlots == 20
ChatLimit == 1900

\* sum(xs[lo..hi]) for ints, by halves
RECURSIVE SumRange(_, _, _)
SumRange(xs, lo, hi) ==
    IF lo > hi THEN 0
    ELSE IF lo = hi THEN xs[lo]
    ELSE LET mid == (lo + hi) \div 2
         IN  SumRange(xs, lo, mid) + SumRange(xs, mid + 1, hi)

\* sum(ceil(q / stacks.get(s, 50)) for s, q in raw.items())
Slots(raw, stacks) ==
    LET slugs == SortedSlugs(DOMAIN raw)
        each == [i \in 1..Len(slugs) |->
                    FCeil(FDiv(raw[slugs[i]], FromInt(Get(stacks, slugs[i], DefaultStack))))]
    IN  SumRange(each, 1, Len(each))

\* line 212
pct(slots_adj, slots_orig) ==
    IF slots_orig # 0
    THEN FTrunc(FMul(FSub(FDiv(FromInt(slots_adj), FromInt(slots_orig)), FromInt(1)),
                     FromInt(100)))
    ELSE 0

\* one row of the final table, lines 207-211
FinalRow(orig, adj, stacks, slug) ==
    LET qo == FTrunc(Get(orig, slug, FromInt(0)))
        qa == FTrunc(Get(adj, slug, FromInt(0)))
        sa == CeilDiv(qa, Get(stacks, slug, DefaultStack))
        name == Title(Replace(slug, "_", " "))
    IN  "| [" \o name \o "](" \o BASE_URL \o "/items/" \o slug \o ") | '" \o Str(qo)
        \o "' | '" \o Str(qa) \o "' | '" \o Str(sa) \o "' |\n"

\* final_tbl, lines 204-213
FinalTable(orig, adj, stacks, slots_adj, slots_orig) ==
    LET slugs == SortedSlugs(DOMAIN orig \cup DOMAIN adj)
    IN  "| Raw Resource | Qty (Orig) | Qty (Adj) | Slots (Adj) |\n"
        \o "|-----|------------|-----------|-------------|\n"
        \o Concat([i \in 1..Len(slugs) |-> FinalRow(orig, adj, stacks, slugs[i])])
        \o "**Total Adj: " \o Str(slots_adj) \o " slots** (+"
        \o Str(pct(slots_adj, slots_orig)) \o "%)\n"

\* the document of lines 215-228 with `chests` in the place of the chest count
Document(item_name, quantity, level, breakdown, final_tbl, slots_orig, chests) ==
    "**" \o Title(item_name) \o " - Full Recursive Breakdown for " \o Str(quantity)
    \o "x (Level " \o Str(level) \o " +1 Blessing)**\n\n"
    \o "## Step-by-Step Batch & Stack Calculation\n" \o breakdown \o "\n\n"
    \o "## Final Gather Totals & Storage Needs\n" \o final_tbl \o "\n\n"
    \o "**Total Raw Slots**: '" \o Str(slots_orig) \o "' > **~" \o Str(chests)
    \o " Chests**\n\n"
    \o "> **Bonus**: Adjusted for failure rates (Very Easy:8%, Easy:15%, Moderate:30%, Hard:50%)  \n"
    \o "> **All math in 'code'**  \n"
    \o "> **Verified from paxdei.gaming.tools**\n"

\* the chest count the document shows, line 223
ChestsShown(slots_orig, slots_adj) == CeilDiv(slots_orig, ChestSlots)

\* line 229
Chat(breakdown) ==
    IF Len(breakdown) > ChatLimit THEN SubSeq(breakdown, 1, ChatLimit) \o "..."
    ELSE breakdown

\* ------------------------------------------------------------------ state
VARIABLES
    web,            \* the site: what the search and the pages answer
    req,            \* the request: [item_name, quantity, level], and the room the
                    \* interpreter's stack has for it
    pc,             \* where generate_breakdown stands
    loc,            \* the locals of generate_breakdown
    frames,         \* the call stack of compute_raw / build_breakdown, innermost last
    url_cache,      \* lru_cache of find_recipe_url, least recently used first
    recipe_cache,   \* lru_cache of scrape_recipe, least recently used first
    classified,     \* how each traversal resolved each name: <<traversal, name, recipe url or None>>
    call,           \* a function called on its own: [fn, args]
    ret             \* what that call returned

vars == <<web, req, pc, loc, frames, url_cache, recipe_cache, classified, call, ret>>
machine == <<frames, url_cache, recipe_cache, classified>>
single == <<call, ret>>

\* ------------------------------------------------------------------ inputs
MaxQuantity == 3
MaxLevel == 1
MaxYield == 2

\* The interpreter's recursion limit (sys.getrecursionlimit(), 1000 unless
\* raised), counted in the activations of compute_raw / build_breakdown that
\* fit on the stack under generate_breakdown: a call made with that many on the
\* stack raises RecursionError.  How many fit depends on the frames above
\* generate_breakdown, one more or less with the way it is entered, so the room
\* is part of the request.
MaxDepth == 988
Rooms == {MaxDepth - 1, MaxDepth}

\* The sites of the model: an axe made of bars, cord and ore; bars and cord made
\* of ore.  Each of the three names has a recipe, a search hit whose page yields
\* no recipe ("nopage"), or no search hit ("nosearch").
Root == "Axe"
ItemSlug == [Axe |-> "axe", Bar |-> "bar", Cord |-> "cord", Ore |-> "iron_ore"]
SlugOf(name) == IF name = "Iron Ore" THEN ItemSlug.Ore ELSE ItemSlug[name]
ItemNames == {"Axe", "Bar", "Cord", "Iron Ore"}
RecipeUrl(name) == BASE_URL \o "/recipes/" \o SlugOf(name)

Ingredient(name, qty_per) ==
    [name |-> name, qty_per |-> qty_per, slug |-> SlugOf(name),
     link |-> BASE_URL \o "/items/" \o SlugOf(name)]

Recipe(name, diff, yield_per, ingredients) ==
    [name |-> name, skill |-> "Blacksmithing", diff |-> diff,
     ingredients |-> ingredients, yield_per |-> yield_per, url |-> RecipeUrl(name)]

RootQty == [Bar |-> 5, Cord |-> 3, Ore |-> 2]
QtyOf(name) == IF name = "Iron Ore" THEN RootQty.Ore ELSE RootQty[name]

\* the orders in which the axe's page lists its ingredients
RootOrders ==
    { <<>>, <<"Bar">>, <<"Iron Ore">>, <<"Iron Ore", "Bar">>,
      <<"Bar", "Cord", "Iron Ore">>, <<"Iron Ore", "Cord", "Bar">>,
      <<"Cord", "Iron Ore", "Bar">> }

Kinds == {"recipe", "nopage", "nosearch"}
KindChoices ==
    { k \in [{"Axe", "Bar", "Cord"} -> Kinds] :
        /\ k["Cord"] # "nopage"
        /\ k["Axe"] # "recipe" => k["Bar"] = "recipe" /\ k["Cord"] = "recipe" }

\* the difficulties the pages state
Diffs == [Low |-> 2, High |-> 9, Bar |-> 5, Cord |-> 2]
LowDiff == Diffs.Low
HighDiff == Diffs.High
BarDiff == Diffs.Bar
CordDiff == Diffs.Cord

\* what an item's page says after "Max Stack": a number, or nothing
StackChoices == {<<1>>, <<>>}

\* what the pages of the bar and of the cord list
PlainSub == [Bar |-> <<"Iron Ore">>, Cord |-> <<"Iron Ore">>]
SubQty == [Bar |-> 1, Cord |-> 4]

SiteWith(kinds, order, yield_per, diff, stack, sub, flaky) ==
    LET recipes ==
            [n \in {"Axe", "Bar", "Cord"} |->
                IF n = "Axe"
                THEN Recipe(n, diff, yield_per,
                            [i \in 1..Len(order) |-> Ingredient(order[i], QtyOf(order[i]))])
                ELSE IF n = "Bar"
                THEN Recipe(n, BarDiff, 2,
                            [i \in 1..Len(sub.Bar) |-> Ingredient(sub.Bar[i], SubQty.Bar)])
                ELSE Recipe(n, CordDiff, 1,
                            [i \in 1..Len(sub.Cord) |-> Ingredient(sub.Cord[i], SubQty.Cord)])]
        kind(n) == IF n \in DOMAIN kinds THEN kinds[n] ELSE "nosearch"
    IN  [search |-> [n \in ItemNames |->
                        IF kind(n) = "nosearch" THEN <<>>
                        ELSE <<[href |-> RecipeUrl(n)]>>],
         page |-> [u \in {RecipeUrl(n) : n \in ItemNames} |->
                        LET n == CHOOSE x \in ItemNames : RecipeUrl(x) = u
                        IN  IF kind(n) = "recipe" THEN recipes[n] ELSE NoRecipe],
         stack |-> [sl \in {SlugOf(n) : n \in ItemNames} |-> stack],
         flaky |-> flaky]

Site(kinds, order, yield_per, diff, stack) ==
    SiteWith(kinds, order, yield_per, diff, stack, PlainSub, FALSE)

NoCall == [fn |-> None, args |-> <<>>]

NoLocals ==
    [orig |-> None, adj |-> None, stacks |-> None, breakdown |-> None,
     slots_orig |-> None, slots_adj |-> None, chests_adj |-> None,
     final_tbl |-> None, md |-> None, chat |-> None]

Init ==
    /\ \E kinds \in KindChoices, order \in RootOrders, yield_per \in 1..MaxYield,
          diff \in {LowDiff, HighDiff}, stack \in StackChoices :
            web = Site(kinds, order, yield_per, diff, stack)
    /\ \E quantity \in 1..MaxQuantity, level \in 0..MaxLevel :
            req = [item_name |-> Root, quantity |-> quantity, level |-> level,
                   room |-> MaxDepth]
    /\ pc = "orig"
    /\ loc = NoLocals
    /\ frames = <<>> /\ url_cache = <<>> /\ recipe_cache = <<>> /\ classified = {}
    /\ call = NoCall /\ ret = None

\* ------------------------------------------------------------------ caches
\* functools.lru_cache(maxsize=128) of lines 26 and 42: a sequence of
\* [key, value], least recently used first.  A hit moves the entry to the end;
\* a miss appends the computed value and, when full, drops the first entry.
\* A returned None is a value like any other and is cached.
CacheSize == 128

Cached(cache, key) == \E i \in 1..Len(cache) : cache[i].key = key
Lookup(cache, key) == cache[CHOOSE i \in 1..Len(cache) : cache[i].key = key].value
Touch(cache, key) ==
    SelectSeq(cache, LAMBDA e : e.key # key) \o <<[key |-> key, value |-> Lookup(cache, key)]>>
Insert(cache, key, value) ==
    (IF Len(cache) >= CacheSize THEN Tail(cache) ELSE cache)
    \o <<[key |-> key, value |-> value]>>

\* What the search can answer for a name, lines 29-39: the site's results, or,
\* where the site is flaky, nothing (no result, or an exception caught at 37).
SearchAnswers(w, item_name) ==
    IF w.flaky THEN {w.search[item_name], <<>>} ELSE {w.search[item_name]}

\* lines 35-39
Href(results) == IF results # <<>> THEN results[1].href ELSE None

\* What fetching and parsing a page can answer, lines 44-98: the page's recipe,
\* or, where the site is flaky, None (an exception caught at 96).
PageAnswers(w, recipe_url) ==
    IF w.flaky THEN {w.page[recipe_url], NoRecipe} ELSE {w.page[recipe_url]}

\* ------------------------------------------------------------------ the lookups of a call
\* What a call of compute_raw or build_breakdown leaves in the two caches, and
\* how it resolved each name it was called for.  m is [urls, recipes, seen]:
\* the two caches and the record; tr names the traversal ("orig", "adj" or
\* "breakdown"); bd tells build_breakdown from compute_raw.

\* find_recipe_url(item_name), through its cache
FindThrough(w, m, item_name) ==
    IF Cached(m.urls, item_name) THEN [m EXCEPT !.urls = Touch(@, item_name)]
    ELSE [m EXCEPT !.urls = Insert(@, item_name, find_recipe_url(w, item_name))]

\* scrape_recipe(recipe_url), through its cache
ScrapeThrough(w, m, recipe_url) ==
    IF Cached(m.recipes, recipe_url) THEN [m EXCEPT !.recipes = Touch(@, recipe_url)]
    ELSE [m EXCEPT !.recipes = Insert(@, recipe_url, scrape_recipe(w, recipe_url))]

Noted(m, tr, name, recipe_url) == [m EXCEPT !.seen = @ \cup {<<tr, name, recipe_url>>}]

RECURSIVE Lookups(_, _, _, _, _)
RECURSIVE LookupsLoop(_, _, _, _, _, _)

\* the call for ingredient i, lines 149 and 184; build_breakdown asks for the
\* ingredient's url first, line 179
LookupsCall(w, m, tr, bd, name) ==
    IF bd THEN ByValue(LAMBDA m1 : Lookups(w, m1, tr, bd, name), FindThrough(w, m, name))
    ELSE Lookups(w, m, tr, bd, name)

\* the loops of lines 147 and 175, from ingredient i on
LookupsLoop(w, m, tr, bd, items, i) ==
    IF i > Len(items) THEN m
    ELSE ByValue(LAMBDA m1 : LookupsLoop(w, m1, tr, bd, items, i + 1),
                 LookupsCall(w, m, tr, bd, items[i].name))

\* once scrape_recipe has answered recipe: lines 139 and 161
LookupsScraped(w, m, tr, bd, name, recipe_url, recipe) ==
    IF recipe = NoRecipe THEN Noted(m, tr, name, None)
    ELSE LookupsLoop(w, Noted(m, tr, name, recipe_url), tr, bd,
                     IF bd THEN SortedByName(recipe.ingredients) ELSE recipe.ingredients, 1)

\* once find_recipe_url has answered url: lines 135 and 158
LookupsFound(w, m, tr, bd, name, url) ==
    IF Falsy(url) THEN Noted(m, tr, name, None)
    ELSE ByValue(LAMBDA m1 : LookupsScraped(w, m1, tr, bd, name, url, Lookup(m1.recipes, url)),
                 ScrapeThrough(w, m, url))

\* compute_raw(name, ...) or build_breakdown(name, ...) entered with m
Lookups(w, m, tr, bd, name) ==
    ByValue(LAMBDA m1 : LookupsFound(w, m1, tr, bd, name, Lookup(m1.urls, name)),
            FindThrough(w, m, name))

\* the caches and the record now
Memory == [urls |-> url_cache, recipes |-> recipe_cache, seen |-> classified]
Remember(m) ==
    /\ url_cache' = m.urls
    /\ recipe_cache' = m.recipes
    /\ classified' = m.seen

\* ------------------------------------------------------------------ generate_breakdown
\* line 193
GenOrig ==
    /\ pc = "orig"
    /\ loc' = [loc EXCEPT !.orig =
                  compute_raw(web, req.item_name, "", FromInt(req.quantity), req.level, FALSE)]
    /\ Remember(Lookups(web, Memory, pc, FALSE, req.item_name))
    /\ pc' = "adj"
    /\ UNCHANGED <<web, req, frames, single>>

\* line 194
GenAdj ==
    /\ pc = "adj"
    /\ loc' = [loc EXCEPT !.adj =
                  compute_raw(web, req.item_name, "", FromInt(req.quantity), req.level, TRUE)]
    /\ Remember(Lookups(web, Memory, pc, FALSE, req.item_name))
    /\ pc' = "stacks"
    /\ UNCHANGED <<web, req, frames, single>>

\* line 196
GenStacks ==
    /\ pc = "stacks"
    /\ loc' = [loc EXCEPT !.stacks =
                  [sl \in DOMAIN loc.orig \cup DOMAIN loc.adj |-> get_max_stack(web, sl)]]
    /\ pc' = "breakdown"
    /\ UNCHANGED <<web, req, machine, single>>

\* line 198
GenBreakdown ==
    /\ pc = "breakdown"
    /\ loc' = [loc EXCEPT !.breakdown =
                  build_breakdown(web, req.item_name, req.quantity, req.level, loc.stacks)]
    /\ Remember(Lookups(web, Memory, pc, TRUE, req.item_name))
    /\ pc' = "slots"
    /\ UNCHANGED <<web, req, frames, single>>

\* lines 200-202
GenSlots ==
    /\ pc = "slots"
    /\ LET slots_orig == Slots(loc.orig, loc.stacks)
           slots_adj == Slots(loc.adj, loc.stacks)
       IN  loc' = [loc EXCEPT !.slots_orig = slots_orig,
                              !.slots_adj = slots_adj,
                              !.chests_adj = CeilDiv(slots_adj, ChestSlots)]
    /\ pc' = "report"
    /\ UNCHANGED <<web, req, machine, single>>

\* lines 204-230
GenReport ==
    /\ pc = "report"
    /\ LET final_tbl == FinalTable(loc.orig, loc.adj, loc.stacks, loc.slots_adj, loc.slots_orig)
       IN  loc' = [loc EXCEPT
                      !.final_tbl = final_tbl,
                      !.md = Document(req.item_name, req.quantity, req.level, loc.breakdown,
                                      final_tbl, loc.slots_orig,
                                      ChestsShown(loc.slots_orig, loc.slots_adj)),
                      !.chat = Chat(loc.breakdown)]
    /\ pc' = "done"
    /\ UNCHANGED <<web, req, machine, single>>

Next == GenOrig \/ GenAdj \/ GenStacks \/ GenBreakdown \/ GenSlots \/ GenReport

Spec == Init /\ [][Next]_vars

\* ------------------------------------------------------------------ the calls, step by step
\* A frame is one activation of compute_raw or build_breakdown; `at` is where
\* it stands: "find" before line 134/157, "scrape" before 138/160, "loop" at
\* the head of the loop, "method" before 179, "call" before 184, "wait" while
\* its callee runs, "return" with `result` ready.
\*
\* Neither function nor generate_breakdown catches an exception, so a
\* RecursionError raised by a call (149, 184) or an OverflowError raised by
\* math.ceil (144) unwinds every frame and ends the request, pc naming the
\* exception.  The recursion limit lies deeper than the names of a site are
\* many, so a lookup made near it is answered from the cache and runs no try
\* block that could swallow the error.

RawFrame(name, slug, needed_qty, apply_fail) ==
    [fn |-> "compute_raw", name |-> name, slug |-> slug, needed_qty |-> needed_qty,
     apply_fail |-> apply_fail, at |-> "find", url |-> None, recipe |-> NoRecipe,
     crafts |-> FZero, i |-> 1, raw |-> EmptyDict, result |-> EmptyDict, calls |-> 0]

BdFrame(name, needed_qty) ==
    [fn |-> "build_breakdown", name |-> name, needed_qty |-> needed_qty,
     at |-> "find", url |-> None, recipe |-> NoRecipe, crafts |-> 0, items |-> <<>>,
     i |-> 1, max_st |-> 0, slots |-> 0, method |-> "", bd |-> "", table |-> "",
     result |-> "",
     calls |-> 0]

Top == frames[Len(frames)]
SetTop(f) == [frames EXCEPT ![Len(frames)] = f]

\* the leaf mapping keyed by the item's name instead of its slug
LeafByName(f) ==
    [f EXCEPT !.at = "return",
              !.result = IF f.fn = "compute_raw" THEN (f.name :> f.needed_qty) ELSE ""]

\* lines 136, 140 and 159, 162
Leaf(f) ==
    [f EXCEPT !.at = "return",
              !.result = IF f.fn = "compute_raw" THEN (f.slug :> f.needed_qty) ELSE ""]

\* The innermost frame calls compute_raw or build_breakdown: the callee's frame
\* is pushed, or, at the recursion limit, RecursionError unwinds every frame and
\* generate_breakdown with them.
Called(callee) ==
    IF Len(frames) < req.room
    THEN /\ frames' = Append(SetTop([Top EXCEPT !.at = "wait", !.calls = @ + 1]), callee)
         /\ pc' = pc
    ELSE /\ frames' = <<>>
         /\ pc' = "RecursionError"

\* the name find_recipe_url is called with: the frame's own at 134/157, the
\* ingredient's at 179
FindKey(f) == IF f.at = "find" THEN f.name ELSE f.items[f.i].name

\* the frame once find_recipe_url has returned url
Found(f, url) ==
    IF f.at = "find"
    THEN IF Falsy(url) THEN Leaf(f) ELSE [f EXCEPT !.url = url, !.at = "scrape"]
    ELSE LET info == f.items[f.i]
         IN  [f EXCEPT !.method = Method(url),
                       !.table = @ \o RowText(info, info.qty_per * f.crafts, f.max_st,
                                              f.slots, Method(url)),
                       !.at = "call"]

\* the frame once scrape_recipe has returned recipe, lines 139-146 and 161-174
Scraped(f, recipe, level) ==
    IF recipe = NoRecipe THEN Leaf(f)
    ELSE IF f.fn = "compute_raw"
    THEN [f EXCEPT !.recipe = recipe, !.at = "loop",
                   !.crafts = Crafts(recipe, f.needed_qty, level, f.apply_fail)]
    ELSE LET crafts == CeilDiv(f.needed_qty, recipe.yield_per)
         IN  [f EXCEPT !.recipe = recipe, !.at = "loop", !.crafts = crafts,
                       !.items = SortedByName(recipe.ingredients),
                       !.bd = Concat(BlockHead(recipe, f.needed_qty, crafts)),
                       !.table = Concat(TableHead)]

\* the traversal's record of how a name resolved
Resolved(f, recipe_url) == classified \cup {<<pc, f.name, recipe_url>>}

\* generate_breakdown calls compute_raw (193, 194) or build_breakdown (198)
Enter ==
    /\ pc \in {"orig", "adj", "breakdown"} /\ frames = <<>>
    /\ frames' = << IF pc = "breakdown" THEN BdFrame(req.item_name, req.quantity)
                    ELSE RawFrame(req.item_name, "", FromInt(req.quantity), pc = "adj") >>
    /\ UNCHANGED <<web, req, pc, loc, url_cache, recipe_cache, classified, single>>

\* find_recipe_url answered from its cache
FindCached ==
    /\ frames # <<>> /\ Top.at \in {"find", "method"}
    /\ Cached(url_cache, FindKey(Top))
    /\ LET url == Lookup(url_cache, FindKey(Top))
       IN  /\ frames' = SetTop(Found(Top, url))
           /\ classified' = IF Top.at = "find" /\ Falsy(url) THEN Resolved(Top, None)
                             ELSE classified
    /\ url_cache' = Touch(url_cache, FindKey(Top))
    /\ UNCHANGED <<web, req, pc, loc, recipe_cache, single>>

\* find_recipe_url runs the search, lines 28-39
FindSearch ==
    /\ frames # <<>> /\ Top.at \in {"find", "method"}
    /\ ~Cached(url_cache, FindKey(Top))
    /\ \E results \in SearchAnswers(web, FindKey(Top)) :
          LET url == Href(results)
          IN  /\ frames' = SetTop(Found(Top, url))
              /\ classified' = IF Top.at = "find" /\ Falsy(url) THEN Resolved(Top, None)
                                ELSE classified
              /\ url_cache' = Insert(url_cache, FindKey(Top), url)
    /\ UNCHANGED <<web, req, pc, loc, recipe_cache, single>>

\* scrape_recipe has returned recipe to the innermost frame, which runs on to
\* its loop or its return, or, in compute_raw with a recipe and a needed_qty of
\* inf, raises at line 144
Answered(recipe) ==
    IF Top.fn = "compute_raw" /\ recipe # NoRecipe /\ Overflows(recipe, Top.needed_qty)
    THEN /\ frames' = <<>>
         /\ pc' = "OverflowError"
    ELSE /\ frames' = SetTop(Scraped(Top, recipe, req.level))
         /\ pc' = pc

\* scrape_recipe answered from its cache
ScrapeCached ==
    /\ frames # <<>> /\ Top.at = "scrape"
    /\ Cached(recipe_cache, Top.url)
    /\ LET recipe == Lookup(recipe_cache, Top.url)
       IN  /\ Answered(recipe)
           /\ classified' = Resolved(Top, IF recipe = NoRecipe THEN None ELSE Top.url)
    /\ recipe_cache' = Touch(recipe_cache, Top.url)
    /\ UNCHANGED <<web, req, loc, url_cache, single>>

\* scrape_recipe fetches the page, lines 44-98
ScrapeFetch ==
    /\ frames # <<>> /\ Top.at = "scrape"
    /\ ~Cached(recipe_cache, Top.url)
    /\ \E recipe \in PageAnswers(web, Top.url) :
          /\ Answered(recipe)
          /\ classified' = Resolved(Top, IF recipe = NoRecipe THEN None ELSE Top.url)
          /\ recipe_cache' = Insert(recipe_cache, Top.url, recipe)
    /\ UNCHANGED <<web, req, loc, url_cache, single>>

\* the ingredients a frame loops over: dict order at 147, sorted at 175
LoopItems(f) == IF f.fn = "compute_raw" THEN f.recipe.ingredients ELSE f.items

\* the loop is exhausted: lines 152 and 186-187
LoopEnd ==
    /\ frames # <<>> /\ Top.at = "loop" /\ Top.i > Len(LoopItems(Top))
    /\ frames' = SetTop(IF Top.fn = "compute_raw"
                        THEN [Top EXCEPT !.at = "return", !.result = Top.raw]
                        ELSE [Top EXCEPT !.at = "return",
                                         !.result = Top.bd \o Top.table \o Notes])
    /\ UNCHANGED <<web, req, pc, loc, url_cache, recipe_cache, classified, single>>

\* compute_raw with a guard it does not have: an ingredient whose call is
\* already on the stack is passed over
RawCallGuarded ==
    /\ frames # <<>> /\ Top.fn = "compute_raw" /\ Top.at = "loop"
    /\ Top.i <= Len(LoopItems(Top))
    /\ LET info == LoopItems(Top)[Top.i]
           sub_needed == FMul(FromInt(info.qty_per), Top.crafts)
       IN  IF \E k \in 1..Len(frames) : frames[k].name = info.name
           THEN frames' = SetTop([Top EXCEPT !.i = @ + 1]) /\ pc' = pc
           ELSE Called(RawFrame(info.name, info.slug, sub_needed, Top.apply_fail))
    /\ UNCHANGED <<web, req, loc, url_cache, recipe_cache, classified, single>>

\* compute_raw calls itself for ingredient i, lines 148-149
RawCall ==
    /\ frames # <<>> /\ Top.fn = "compute_raw" /\ Top.at = "loop"
    /\ Top.i <= Len(LoopItems(Top))
    /\ LET info == LoopItems(Top)[Top.i]
           sub_needed == FMul(FromInt(info.qty_per), Top.crafts)
       IN  Called(RawFrame(info.name, info.slug, sub_needed, Top.apply_fail))
    /\ UNCHANGED <<web, req, loc, url_cache, recipe_cache, classified, single>>

\* build_breakdown sizes the row of ingredient i, lines 176-178
RowStacks ==
    /\ frames # <<>> /\ Top.fn = "build_breakdown" /\ Top.at = "loop"
    /\ Top.i <= Len(LoopItems(Top))
    /\ LET info == LoopItems(Top)[Top.i]
           max_st == Get(loc.stacks, info.slug, get_max_stack(web, info.slug))
       IN  frames' = SetTop([Top EXCEPT !.max_st = max_st, !.at = "method",
                                        !.slots = CeilDiv(info.qty_per * Top.crafts, max_st)])
    /\ UNCHANGED <<web, req, pc, loc, url_cache, recipe_cache, classified, single>>

\* build_breakdown calls itself for ingredient i, line 184
BdCall ==
    /\ frames # <<>> /\ Top.fn = "build_breakdown" /\ Top.at = "call"
    /\ LET info == LoopItems(Top)[Top.i]
       IN  Called(BdFrame(info.name, info.qty_per * Top.crafts))
    /\ UNCHANGED <<web, req, loc, url_cache, recipe_cache, classified, single>>

\* the caller once its callee has returned result: lines 150-151 and 184-185
Resumed(f, result) ==
    IF f.fn = "compute_raw"
    THEN [f EXCEPT !.raw = Accumulate(@, result), !.i = @ + 1, !.at = "loop"]
    ELSE [f EXCEPT !.bd = @ \o result \o Notes, !.i = @ + 1, !.at = "loop"]

AfterCall == [orig |-> "adj", adj |-> "stacks", breakdown |-> "slots"]

\* a call returns, to its caller or to generate_breakdown
Return ==
    /\ frames # <<>> /\ Top.at = "return"
    /\ IF Len(frames) = 1
       THEN /\ frames' = <<>>
            /\ loc' = [loc EXCEPT ![pc] = Top.result]
            /\ pc' = AfterCall[pc]
       ELSE /\ frames' = Append(SubSeq(frames, 1, Len(frames) - 2),
                                Resumed(frames[Len(frames) - 1], Top.result))
            /\ UNCHANGED <<pc, loc>>
    /\ UNCHANGED <<web, req, url_cache, recipe_cache, classified, single>>

NextSteps ==
    \/ Enter \/ FindCached \/ FindSearch \/ ScrapeCached \/ ScrapeFetch
    \/ LoopEnd \/ RawCall \/ RowStacks \/ BdCall \/ Return
    \/ GenStacks \/ GenSlots \/ GenReport

InitSteps ==
    /\ \E kinds \in KindChoices, order \in RootOrders :
            web = Site(kinds, order, 1, LowDiff, <<>>)
    /\ \E quantity \in 0..MaxQuantity :
            req = [item_name |-> Root, quantity |-> quantity, level |-> 0, room |-> MaxDepth]
    /\ pc = "orig"
    /\ loc = NoLocals
    /\ frames = <<>> /\ url_cache = <<>> /\ recipe_cache = <<>> /\ classified = {}
    /\ call = NoCall /\ ret = None

\* ENABLED <<NextSteps>>_vars, from the guards of the steps: each step moves pc
\* or frames, and the innermost frame never waits
Running ==
    \/ pc \in {"stacks", "slots", "report"}
    \/ pc \in {"orig", "adj", "breakdown"} /\ frames = <<>>
    \/ frames # <<>> /\ Top.at \in {"find", "method", "scrape", "loop", "call", "return"}

\* Each step is a step of one thread running straight-line code, so a step
\* that can be taken is taken: WF_vars(NextSteps), with its ENABLED written out
\* as Running.
Fairness == []<>(~Running) \/ []<><<NextSteps>>_vars

SpecSteps == InitSteps /\ [][NextSteps]_vars /\ Fairness

\* Sites with a cycle: the axe lists ore, cord and bar and the page of the cord
\* lists the cord itself, four of them or CordsPerCord; or the axe lists ore and
\* bar and the page of the bar lists the axe.  With them the sites without a
\* cycle, and the request made with either room.
AllRecipes == [Axe |-> "recipe", Bar |-> "recipe", Cord |-> "recipe"]
CordsPerCord == 1000000

WithCordQty(w, qty_per) ==
    [w EXCEPT !.page[RecipeUrl("Cord")].ingredients[1].qty_per = qty_per]

CordSite ==
    SiteWith(AllRecipes, <<"Iron Ore", "Cord", "Bar">>, 1, LowDiff, <<>>,
             [Bar |-> <<"Iron Ore">>, Cord |-> <<"Cord">>], FALSE)

CyclicSites ==
    { CordSite, WithCordQty(CordSite, CordsPerCord),
      SiteWith(AllRecipes, <<"Iron Ore", "Bar">>, 1, LowDiff, <<>>,
               [Bar |-> <<"Axe">>, Cord |-> <<"Iron Ore">>], FALSE) }

DeepSites ==
    { Site(kinds, order, 1, LowDiff, <<>>) : kinds \in KindChoices, order \in RootOrders }
    \cup CyclicSites

InitDeep ==
    /\ web \in DeepSites
    /\ \E quantity \in 0..1, room \in Rooms :
            req = [item_name |-> Root, quantity |-> quantity, level |-> 0, room |-> room]
    /\ pc = "orig"
    /\ loc = NoLocals
    /\ frames = <<>> /\ url_cache = <<>> /\ recipe_cache = <<>> /\ classified = {}
    /\ call = NoCall /\ ret = None

SpecDeep == InitDeep /\ [][NextSteps]_vars /\ Fairness

\* A site wider than the caches: the axe is made of WideCount ingredients that
\* have no recipe, and the search and the fetch may fail.
WideCount == CacheSize + 1
WideName(i) == "Nail " \o ToString(i)
WideSlug(i) == "nail_" \o ToString(i)
WideNames == {WideName(i) : i \in 1..WideCount}

WideSite ==
    [search |-> [n \in WideNames \cup {Root} |->
                    IF n = Root THEN <<[href |-> RecipeUrl(Root)]>> ELSE <<>>],
     page |-> [u \in {RecipeUrl(Root)} |->
                    Recipe(Root, LowDiff, 1,
                           [i \in 1..WideCount |->
                               [name |-> WideName(i), qty_per |-> 1, slug |-> WideSlug(i),
                                link |-> BASE_URL \o "/items/" \o WideSlug(i)]])],
     stack |-> [sl \in {} |-> <<>>],
     flaky |-> TRUE]

InitWide ==
    /\ web = WideSite
    /\ req = [item_name |-> Root, quantity |-> 1, level |-> 0, room |-> MaxDepth]
    /\ pc = "orig"
    /\ loc = NoLocals
    /\ frames = <<>> /\ url_cache = <<>> /\ recipe_cache = <<>> /\ classified = {}
    /\ call = NoCall /\ ret = None

SpecWide == InitWide /\ [][NextSteps]_vars

\* ------------------------------------------------------------------ single calls
\* get_fail_multiplier and the overhead percentage called on their own, over
\* every argument pair of a range
MaxDiff == 12
MaxAdjLevel == 6
MaxSlots == 12

InitFn ==
    /\ web = SiteWith([Axe |-> "nosearch"], <<>>, 1, LowDiff, <<>>, PlainSub, FALSE)
    /\ req = [item_name |-> Root, quantity |-> 1, level |-> 0, room |-> MaxDepth]
    /\ loc = NoLocals
    /\ frames = <<>> /\ url_cache = <<>> /\ recipe_cache = <<>> /\ classified = {}
    /\ pc = "call"
    /\ ret = None
    /\ \/ \E diff \in -MaxAdjLevel..MaxDiff, adjusted_level \in -MaxAdjLevel..MaxAdjLevel :
             call = [fn |-> "get_fail_multiplier", args |-> <<diff, adjusted_level>>]
       \/ \E slots_adj \in 0..MaxSlots, slots_orig \in 0..MaxSlots :
             call = [fn |-> "pct", args |-> <<slots_adj, slots_orig>>]

\* lines 115-123
CallMultiplier ==
    /\ pc = "call" /\ call.fn = "get_fail_multiplier"
    /\ ret' = get_fail_multiplier(call.args[1], call.args[2])
    /\ pc' = "returned"
    /\ UNCHANGED <<web, req, loc, machine, call>>

\* line 212
CallPct ==
    /\ pc = "call" /\ call.fn = "pct"
    /\ ret' = pct(call.args[1], call.args[2])
    /\ pc' = "returned"
    /\ UNCHANGED <<web, req, loc, machine, call>>

NextFn == CallMultiplier \/ CallPct

SpecFn == InitFn /\ [][NextFn]_vars

\* ------------------------------------------------------------------ properties
\* 1 / 0.xy, 0.xy the double the decimal literal denotes
OneOver(hundredths) == FDiv(FromInt(1), Hundredths(hundredths))

Abs(x) == IF x < 0 THEN -x ELSE x

\* the names a name's recipe lists, none when the name resolves to no recipe
SubNames(w, name) ==
    LET url == find_recipe_url(w, name)
        recipe == IF Falsy(url) THEN NoRecipe ELSE scrape_recipe(w, url)
    IN  IF recipe = NoRecipe THEN {}
        ELSE {recipe.ingredients[i].name : i \in 1..Len(recipe.ingredients)}

\* the names reachable from a set of names through recipes
RECURSIVE ReachFrom(_, _)
ReachFrom(w, names) ==
    LET more == names \cup UNION {SubNames(w, n) : n \in names}
    IN  IF more = names THEN names ELSE ReachFrom(w, more)

\* a recipe that needs itself, directly or through others, is reachable from name
Cyclic(w, name) ==
    \E n \in ReachFrom(w, {name}) : n \in ReachFrom(w, SubNames(w, n))

\* the request has ended in an exception that generate_breakdown let through
Raised == {"RecursionError", "OverflowError"}

\* the site where the page of the cord lists the cord: four cords a cord, so
\* the quantity passed down grows fourfold a level
CordNeedsCord == Cyclic(web, "Cord") /\ "Cord" \in ReachFrom(web, {req.item_name})

Settled ==
    IF Cyclic(web, req.item_name)
    THEN /\ pc \in Raised /\ frames = <<>>
         /\ req.quantity = 0 => pc = "RecursionError"
         /\ CordNeedsCord /\ req.quantity > 0 => pc = "OverflowError"
    ELSE pc \notin {"orig", "adj"} \cup Raised

C3_Tiers ==
    (pc = "returned" /\ call.fn = "get_fail_multiplier") =>
        LET delta == call.args[1] - call.args[2]
        IN  ret = IF delta <= 0 THEN OneOver(92)
                  ELSE IF delta <= 3 THEN OneOver(85)
                  ELSE IF delta <= 6 THEN OneOver(70)
                  ELSE OneOver(50)

\* a call at the boundary delta = 6 has returned the moderate multiplier
C3_Witness ==
    /\ pc = "returned" /\ call.fn = "get_fail_multiplier"
    /\ call.args[1] - call.args[2] = 6
    /\ ret = OneOver(70) /\ ret # OneOver(50)

\* C7: the overhead percentage is (slots_adj / slots_orig - 1) * 100 rounded to
\* the nearest integer when slots_orig > 0, and 0 when slots_orig = 0.  ret is a
\* nearest integer of the exact value 100 * (a - o) / o iff
\* 2 * |ret * o - 100 * (a - o)| <= o.
C7_Rounded ==
    (pc = "returned" /\ call.fn = "pct") =>
        LET a == call.args[1]
            o == call.args[2]
        IN  IF o = 0 THEN ret = 0
            ELSE 2 * Abs(ret * o - 100 * (a - o)) <= o

\* the name resolves to a recipe on the site: the search finds a page and the
\* page yields a recipe
Resolves(w, name) ==
    LET url == find_recipe_url(w, name)
    IN  ~Falsy(url) /\ scrape_recipe(w, url) # NoRecipe

\* C8: within one request every item name is resolved the same way (to the
\* same recipe, or to none) wherever the ideal traversal, the adjusted
\* traversal and the breakdown traversal come to it, whatever the search and
\* the fetch answer and however many names there are for the 128 cache entries.
C8_SameClassification ==
    \A a \in classified, b \in classified : a[2] = b[2] => a[3] = b[3]

\* C2: a call of compute_raw whose name resolves to no recipe returns exactly
\* {slug: needed_qty}, in both modes and without having called itself; for the
\* root call that is {"": quantity}.
C2_LeafMapping ==
    /\ \A k \in 1..Len(frames) :
          LET f == frames[k]
          IN  (f.fn = "compute_raw" /\ f.at = "return" /\ ~Resolves(web, f.name)) =>
                  /\ f.result = (f.slug :> f.needed_qty)
                  /\ f.calls = 0
    /\ ~Resolves(web, req.item_name) =>
          /\ pc \notin {"orig"} => loc.orig = ("" :> FromInt(req.quantity))
          /\ pc \notin {"orig", "adj"} => loc.adj = ("" :> FromInt(req.quantity))

\* an adjusted call for an ingredient without a recipe is about to return a
\* fractional quantity under the ingredient's slug
C2_Witness ==
    /\ frames # <<>> /\ Top.fn = "compute_raw" /\ Top.at = "return"
    /\ Top.apply_fail /\ Len(frames) > 1
    /\ ~Resolves(web, Top.name)
    /\ Top.result = (Top.slug :> Top.needed_qty)
    /\ Top.needed_qty # FromInt(FCeil(Top.needed_qty))

\* C9: the method of a row is "craft" exactly when the ingredient resolves to a
\* recipe (the search finds a page and the page yields a recipe), "gather"
\* otherwise.
C9_MethodIsResolution ==
    \A k \in 1..Len(frames) :
        LET f == frames[k]
        IN  (f.fn = "build_breakdown" /\ f.at \in {"call", "wait"}) =>
                (f.method = "craft" <=> Resolves(web, f.items[f.i].name))

\* the recipe the root item resolves to
RootRecipe == scrape_recipe(web, find_recipe_url(web, req.item_name))

\* the orders a sequence can be put in
Orders(seq) ==
    { [i \in 1..Len(seq) |-> seq[f[i]]] :
        f \in { g \in [1..Len(seq) -> 1..Len(seq)] :
                  \A i \in 1..Len(seq), j \in 1..Len(seq) : g[i] = g[j] => i = j } }

\* the site with the root's page listing its ingredients in another order
Reordered(w, ingredients) ==
    [w EXCEPT !.page[find_recipe_url(w, req.item_name)].ingredients = ingredients]

\* the element-wise sum of a sequence of mappings, each slug's quantities
\* added up from 0 in the order of the sequence
RECURSIVE SumUpTo(_, _, _)
SumUpTo(maps, slug, i) ==
    IF i = 0 THEN FromInt(0)
    ELSE IF slug \in DOMAIN maps[i] THEN FAdd(SumUpTo(maps, slug, i - 1), maps[i][slug])
    ELSE SumUpTo(maps, slug, i - 1)

ElementwiseSum(maps) ==
    [slug \in UNION {DOMAIN maps[i] : i \in 1..Len(maps)} |-> SumUpTo(maps, slug, Len(maps))]

\* what C1 says compute_raw returns for a name that resolves to recipe
RecipeSum(w, recipe, needed_qty, level, apply_fail) ==
    LET m == IF apply_fail THEN get_fail_multiplier(recipe.diff, level + 1) ELSE FromInt(1)
        crafts == FMul(FromInt(FCeil(FDiv(needed_qty, FromInt(recipe.yield_per)))), m)
    IN  ElementwiseSum([i \in 1..Len(recipe.ingredients) |->
            compute_raw(w, recipe.ingredients[i].name, recipe.ingredients[i].slug,
                        FMul(FromInt(recipe.ingredients[i].qty_per), crafts),
                        level, apply_fail)])

\* the quantities the calls are checked on: whole ones, and fractional ones as
\* an adjusted call passes them down
NeededQtys ==
    {FromInt(n) : n \in {0, MaxQuantity}}
    \cup {FMul(FromInt(n), get_fail_multiplier(HighDiff, 1)) : n \in {1, MaxQuantity}}

\* C1: for a name that resolves to a recipe, compute_raw returns the
\* element-wise sum over the recipe's ingredients of compute_raw(ingredient,
\* its slug, qty_per * crafts), where crafts = ceil(n / y) * m is not rounded,
\* m is the multiplier for (d, level + 1) with apply_fail and exactly 1
\* without, so that the ideal result is the same at every level.
C1_RecipeSum ==
    pc = "stacks" =>
        /\ Resolves(web, req.item_name) =>
              /\ loc.orig = RecipeSum(web, RootRecipe, FromInt(req.quantity), req.level, FALSE)
              /\ loc.adj = RecipeSum(web, RootRecipe, FromInt(req.quantity), req.level, TRUE)
        /\ \A level \in 0..(MaxLevel + 1) :
              loc.orig = compute_raw(web, req.item_name, "", FromInt(req.quantity), level, FALSE)
        /\ \A name \in ItemNames, needed_qty \in NeededQtys, apply_fail \in BOOLEAN :
              (req.quantity = 1 /\ Resolves(web, name)) =>
                  compute_raw(web, name, SlugOf(name), needed_qty, req.level, apply_fail)
                  = RecipeSum(web, scrape_recipe(web, find_recipe_url(web, name)),
                              needed_qty, req.level, apply_fail)

\* both calls have returned for a root made of three ingredients, two of them
\* crafted, and the adjusted total of ore is fractional
C1_Witness ==
    /\ pc = "stacks"
    /\ Resolves(web, req.item_name) /\ Len(RootRecipe.ingredients) = 3
    /\ Resolves(web, "Bar") /\ Resolves(web, "Cord")
    /\ DOMAIN loc.adj = {"iron_ore"}
    /\ loc.adj["iron_ore"] # FromInt(FCeil(loc.adj["iron_ore"]))
    /\ loc.orig["iron_ore"] = FromInt(FCeil(loc.orig["iron_ore"]))

\* C4: putting the ingredients of a recipe in another order leaves the mapping
\* compute_raw returns unchanged, slug for slug and quantity for quantity.
C4_OrderIndependent ==
    (pc = "stacks" /\ Resolves(web, req.item_name)) =>
        \A ingredients \in Orders(RootRecipe.ingredients) :
            LET other == Reordered(web, ingredients)
            IN  /\ compute_raw(other, req.item_name, "", FromInt(req.quantity),
                               req.level, FALSE) = loc.orig
                /\ compute_raw(other, req.item_name, "", FromInt(req.quantity),
                               req.level, TRUE) = loc.adj

\* a piece of the breakdown is a Batch Craft line
BatchPrefix == "- **Batch Craft**: '"
IsBatchLine(piece) ==
    Len(piece) >= Len(BatchPrefix) /\ SubSeq(piece, 1, Len(BatchPrefix)) = BatchPrefix

\* C5 as stated: the breakdown is the same text for every order of the
\* ingredients inside the recipes, header block included.
C5_OrderIndependent ==
    (pc = "slots" /\ Resolves(web, req.item_name)) =>
        \A ingredients \in Orders(RootRecipe.ingredients) :
            build_breakdown(Reordered(web, ingredients), req.item_name, req.quantity,
                            req.level, loc.stacks) = loc.breakdown

\* C5, amended: for every order of the ingredients inside the recipes the
\* breakdown is the same piece for piece, but for the Batch Craft line of a
\* header block, which lists the inputs in the order of the page.
C5_SameButBatchLine ==
    (pc = "slots" /\ Resolves(web, req.item_name)) =>
        \A ingredients \in Orders(RootRecipe.ingredients) :
            LET here == BreakdownLines(web, req.item_name, req.quantity, req.level,
                                       loc.stacks)
                there == BreakdownLines(Reordered(web, ingredients), req.item_name,
                                        req.quantity, req.level, loc.stacks)
            IN  /\ Concat(here) = loc.breakdown
                /\ Len(there) = Len(here)
                /\ \A i \in 1..Len(here) :
                      here[i] # there[i] => IsBatchLine(here[i]) /\ IsBatchLine(there[i])

\* the breakdown of a root whose page lists three ingredients out of
\* alphabetical order, two of them with blocks of their own
C5_Witness ==
    /\ pc = "slots" /\ Resolves(web, req.item_name)
    /\ Len(RootRecipe.ingredients) = 3
    /\ RootRecipe.ingredients # SortedByName(RootRecipe.ingredients)
    /\ Resolves(web, "Bar") /\ Resolves(web, "Cord")
    /\ loc.breakdown # ""
    /\ \E ingredients \in Orders(RootRecipe.ingredients) :
          build_breakdown(Reordered(web, ingredients), req.item_name, req.quantity,
                          req.level, loc.stacks) # loc.breakdown

\* C6: the chest count the document shows is ceil(S / 20) for S the slot total
\* of the adjusted mapping.
C6_ChestsFromAdjusted ==
    pc = "done" =>
        loc.md = Document(req.item_name, req.quantity, req.level, loc.breakdown,
                          loc.final_tbl, loc.slots_orig,
                          CeilDiv(loc.slots_adj, ChestSlots))

====
